---------------------------- MODULE Spec2Model ----------------------------
(***************************************************************************)
(* Value model and default numeric backend of evalexpr.                    *)
(*                                                                         *)
(* The value type (src/src/value/mod.rs) is a closed tagged union over a   *)
(* numeric backend; the default backend (numeric_types/mod.rs and          *)
(* numeric_types/without_num.rs) binds i64 and f64.  TLC's integers are 32 *)
(* bits wide, so the scalar types are modelled at a reduced width: the     *)
(* integer type is two's complement of IntBits bits, the float type is a   *)
(* binary floating-point format with MantBits significant bits whose       *)
(* smallest unit is 2^-FracBits.  The proportions of the real types are    *)
(* kept: the integer is wider than the float's mantissa (64 > 53), so      *)
(* int_as_float loses precision at the top of the integer range.           *)
(***************************************************************************)
EXTENDS Integers, Sequences, FiniteSets, TLC

VARIABLES
    v,                \* the Value an operation is called on (self)
    a,                \* integer receiver of a backend operation (self)
    b,                \* integer right-hand side of a backend operation
    overflow_checks,  \* build profile: are rustc's overflow checks compiled in
    fa,               \* float operand of a backend operation
    ua,               \* usize operand of a backend operation
    pointer_width,    \* build target: the number of bits of usize
    rand_enabled,     \* build features: is the feature "rand" compiled in
    target,           \* the backend a conversion or construction is asked for
    foreign,          \* a number or other primitive from outside the backend
    op,               \* the operation that ran last ("init": none yet)
    arg,              \* the arguments it was called with
    res               \* what it returned

vars ==
    <<v, a, b, overflow_checks, fa, ua, pointer_width, rand_enabled,
      target, foreign, op, arg, res>>

-----------------------------------------------------------------------------
(* Bounds of the model *)

\* width of the backend integer type (i64: 64)
IntBits == 9
\* significant bits of the backend float type (f64: 53)
MantBits == 7
\* the float's smallest unit is 2^-FracBits (f64: 2^-1074)
FracBits == 5
\* the largest finite float is (2^MantBits - 1) * 2^TopShift units
TopShift == 9
\* longest tuple built from the element samples
MaxTupleLen == 3

-----------------------------------------------------------------------------
(* Scalar arithmetic helpers *)

RECURSIVE Pow2(_)
Pow2(k) == IF k <= 0 THEN 1 ELSE 2 * Pow2(k - 1)

RECURSIVE Pow10(_)
Pow10(k) == IF k <= 0 THEN 1 ELSE 10 * Pow10(k - 1)

RECURSIVE BitLen(_)
BitLen(m) == IF m <= 0 THEN 0 ELSE 1 + BitLen(m \div 2)

Abs(n) == IF n < 0 THEN -n ELSE n

Max2(x, y) == IF x >= y THEN x ELSE y

\* i64::MIN and i64::MAX at the model's width
IntMin == -Pow2(IntBits - 1)
IntMax == Pow2(IntBits - 1) - 1
IntType == IntMin..IntMax

-----------------------------------------------------------------------------
(* The float type: NaN, the two infinities, and the finite values n/2^FracBits *)
(* whose magnitude has at most MantBits significant bits.                      *)

Unit == Pow2(FracBits)
MaxUnits == (Pow2(MantBits) - 1) * Pow2(TopShift)

NaN == [cls |-> "nan", n |-> 0]
PosInf == [cls |-> "inf", n |-> 1]
NegInf == [cls |-> "inf", n |-> -1]
Fin(n) == [cls |-> "fin", n |-> n]

\* spacing of the representable values at magnitude m (in units)
Ulp(m) == Pow2(Max2(0, BitLen(m) - MantBits))

Representable(n) == Abs(n) <= MaxUnits /\ Abs(n) % Ulp(Abs(n)) = 0

\* the representable magnitude nearest to p/q units (p >= 0, q > 0),
\* ties to the even mantissa
RoundUnits(p, q) ==
    LET m == p \div q
        u == Ulp(m)
        lo == (m \div u) * u
        twice == 2 * (p - lo * q)
        full == q * u
        up == twice > full \/ (twice = full /\ (lo \div u) % 2 = 1)
    IN IF up THEN lo + u ELSE lo

\* the float nearest to the signed ratio p/q units; overflow gives infinity
FloatNearest(p, q) ==
    LET m == RoundUnits(Abs(p), q)
    IN IF m > MaxUnits THEN (IF p < 0 THEN NegInf ELSE PosInf)
       ELSE Fin(IF p < 0 THEN -m ELSE m)

\* the float a decimal literal d * 10^-k denotes (3.3 is FloatLit(33, 1))
FloatLit(d, k) == FloatNearest(d * Unit, Pow10(k))

-----------------------------------------------------------------------------
(* enum Value: one record shape per variant *)

ValueString(s) == [tag |-> "String", str |-> s]
ValueFloat(f) == [tag |-> "Float", float |-> f]
ValueInt(i) == [tag |-> "Int", int |-> i]
ValueBoolean(x) == [tag |-> "Boolean", bool |-> x]
ValueTuple(t) == [tag |-> "Tuple", tup |-> t]
ValueEmpty == [tag |-> "Empty"]

\* constructors
from_float(f) == ValueFloat(f)
from_int(i) == ValueInt(i)
from_string(s) == ValueString(s)
from_bool(x) == ValueBoolean(x)
from_tuple(t) == ValueTuple(t)
\* the unit taken for the tuple without elements
from_unit_as_tuple == ValueTuple(<<>>)
from_unit == ValueEmpty

-----------------------------------------------------------------------------
(* Results: Ok carries a payload under a field named after its type, Err *)
(* carries an error value.                                               *)

OkString(s) == [ok |-> TRUE, str |-> s]
OkInt(i) == [ok |-> TRUE, int |-> i]
OkFloat(f) == [ok |-> TRUE, float |-> f]
OkBoolean(x) == [ok |-> TRUE, bool |-> x]
OkTuple(t) == [ok |-> TRUE, tup |-> t]
OkUnit == [ok |-> TRUE, unit |-> <<>>]
Err(e) == [ok |-> FALSE, err |-> e]
\* the thread unwinds: no value is returned
Panic(msg) == [ok |-> FALSE, panic |-> msg]
NoResult == [none |-> TRUE]
\* no conversion is asked for: no target backend, no foreign primitive
NotAsked == [none |-> TRUE]

IsOk(r) == "ok" \in DOMAIN r /\ r.ok
IsErr(r) == "err" \in DOMAIN r
IsPanic(r) == "panic" \in DOMAIN r

\* EvalexprError constructors the accessors call
expected_string(actual) == [error |-> "ExpectedString", actual |-> actual]
expected_int(actual) == [error |-> "ExpectedInt", actual |-> actual]
expected_float(actual) == [error |-> "ExpectedFloat", actual |-> actual]
expected_number(actual) == [error |-> "ExpectedNumber", actual |-> actual]
expected_boolean(actual) == [error |-> "ExpectedBoolean", actual |-> actual]
expected_tuple(actual) == [error |-> "ExpectedTuple", actual |-> actual]
expected_empty(actual) == [error |-> "ExpectedEmpty", actual |-> actual]
expected_fixed_len_tuple(len, actual) ==
    [error |-> "ExpectedFixedLengthTuple", expected_length |-> len, actual |-> actual]
expected_ranged_len_tuple(range, actual) ==
    [error |-> "ExpectedRangedLengthTuple", expected_range |-> range, actual |-> actual]

-----------------------------------------------------------------------------
(* Type predicates *)

is_string(x) == x.tag = "String"
is_int(x) == x.tag = "Int"
is_float(x) == x.tag = "Float"
\* is_number forgetting the Int variant
is_number_float_only(x) == x.tag = "Float"
is_number(x) == x.tag = "Int" \/ x.tag = "Float"
is_boolean(x) == x.tag = "Boolean"
is_tuple(x) == x.tag = "Tuple"
\* is_empty taking the tuple without elements for Empty too
is_empty_or_no_elements(x) == x.tag = "Empty" \/ (x.tag = "Tuple" /\ x.tup = <<>>)
is_empty(x) == x.tag = "Empty"

-----------------------------------------------------------------------------
(* The backend's scalar conversions (DefaultNumericTypes) *)

\* `*int as f64`: the nearest float, ties to even
int_as_float(i) == FloatNearest(i * Unit, 1)

-----------------------------------------------------------------------------
(* Typed accessors *)

as_string(x) ==
    IF x.tag = "String" THEN OkString(x.str) ELSE Err(expected_string(x))

as_int(x) ==
    IF x.tag = "Int" THEN OkInt(x.int) ELSE Err(expected_int(x))

as_float(x) ==
    IF x.tag = "Float" THEN OkFloat(x.float) ELSE Err(expected_float(x))

\* as_number without the Int arm
as_number_float_only(x) ==
    IF x.tag = "Float" THEN OkFloat(x.float) ELSE Err(expected_number(x))

as_number(x) ==
    CASE x.tag = "Float" -> OkFloat(x.float)
      [] x.tag = "Int" -> OkFloat(int_as_float(x.int))
      [] OTHER -> Err(expected_number(x))

as_boolean(x) ==
    IF x.tag = "Boolean" THEN OkBoolean(x.bool) ELSE Err(expected_boolean(x))

as_tuple(x) ==
    IF x.tag = "Tuple" THEN OkTuple(x.tup) ELSE Err(expected_tuple(x))

\* as_fixed_len_tuple accepting longer tuples
as_fixed_len_tuple_at_least(x, len) ==
    IF x.tag = "Tuple"
    THEN IF Len(x.tup) >= len
         THEN OkTuple(x.tup)
         ELSE Err(expected_fixed_len_tuple(len, x))
    ELSE Err(expected_tuple(x))

as_fixed_len_tuple(x, len) ==
    IF x.tag = "Tuple"
    THEN IF Len(x.tup) = len
         THEN OkTuple(x.tup)
         ELSE Err(expected_fixed_len_tuple(len, x))
    ELSE Err(expected_tuple(x))

\* RangeInclusive::contains: start <= item /\ item <= end
RangeContains(range, item) == range.start <= item /\ item <= range.end

\* as_ranged_len_tuple reading the range as half-open
as_ranged_len_tuple_half_open(x, range) ==
    IF x.tag = "Tuple"
    THEN IF range.start <= Len(x.tup) /\ Len(x.tup) < range.end
         THEN OkTuple(x.tup)
         ELSE Err(expected_ranged_len_tuple(range, x))
    ELSE Err(expected_tuple(x))

as_ranged_len_tuple(x, range) ==
    IF x.tag = "Tuple"
    THEN IF RangeContains(range, Len(x.tup))
         THEN OkTuple(x.tup)
         ELSE Err(expected_ranged_len_tuple(range, x))
    ELSE Err(expected_tuple(x))

\* as_empty reporting the kind its doc comment names
as_empty_expects_tuple(x) ==
    IF x.tag = "Empty" THEN OkUnit ELSE Err(expected_tuple(x))

as_empty(x) ==
    IF x.tag = "Empty" THEN OkUnit ELSE Err(expected_empty(x))

-----------------------------------------------------------------------------
(* Textual rendering *)

Digit(d) == <<"0", "1", "2", "3", "4", "5", "6", "7", "8", "9">>[d + 1]

RECURSIVE NatToString(_)
NatToString(n) ==
    IF n < 10 THEN Digit(n) ELSE NatToString(n \div 10) \o Digit(n % 10)

\* number of decimal digits of n (0 for 0)
RECURSIVE NumDigits(_)
NumDigits(n) == IF n <= 0 THEN 0 ELSE 1 + NumDigits(n \div 10)

\* n written with exactly k digits, zero-padded on the left
RECURSIVE PadDigits(_, _)
PadDigits(n, k) ==
    IF k <= 0 THEN "" ELSE PadDigits(n \div 10, k - 1) \o Digit(n % 10)

\* <i64 as Display>::fmt
IntToString(i) == IF i < 0 THEN "-" \o NatToString(-i) ELSE NatToString(i)

\* <bool as Display>::fmt
BoolToString(x) == IF x THEN "true" ELSE "false"

\* The decimals with k fractional digits (multiples of 10^-k; of 10^|k| when
\* k < 0) that read back as the float of magnitude n units: those strictly
\* inside its rounding interval, or on its edge when the mantissa is even.
\* Everything is scaled by 2 * Unit * 10^k so that it stays integral.
DecimalCandidates(n, k) ==
    LET up == Pow10(k)
        step == 2 * Unit * Pow10(-k)
        lo == (2 * n - Ulp(n - 1)) * up
        hi == (2 * n + Ulp(n)) * up
        x == 2 * n * up
        even == (n \div Ulp(n)) % 2 = 0
        inside(d) == IF even THEN lo <= d * step /\ d * step <= hi
                     ELSE lo < d * step /\ d * step < hi
        d0 == x \div step
    IN [x |-> x, step |-> step, ds |-> {d \in {d0, d0 + 1} : inside(d)}]

\* the fewest fractional digits with which some decimal reads back as n
RECURSIVE ShortestScale(_, _)
ShortestScale(n, k) ==
    IF k >= FracBits \/ DecimalCandidates(n, k).ds # {}
    THEN k
    ELSE ShortestScale(n, k + 1)

\* <f64 as Display>::fmt for a finite magnitude n > 0: the shortest decimal
\* that reads back as the same float, the closest one when several do,
\* written without exponent
ShortestDecimal(n) ==
    LET k == ShortestScale(n, -NumDigits(n \div Unit))
        c == DecimalCandidates(n, k)
        dist(d) == Abs(d * c.step - c.x)
        best == CHOOSE d \in c.ds : \A e \in c.ds :
                    dist(d) < dist(e) \/ (dist(d) = dist(e) /\ (d % 2 = 0 \/ d = e))
    IN IF k <= 0
       THEN NatToString(best * Pow10(-k))
       ELSE NatToString(best \div Pow10(k)) \o "." \o PadDigits(best % Pow10(k), k)

FloatToString(f) ==
    CASE f.cls = "nan" -> "NaN"
      [] f.cls = "inf" -> IF f.n < 0 THEN "-inf" ELSE "inf"
      [] OTHER -> IF f.n = 0 THEN "0"
                  ELSE IF f.n < 0 THEN "-" \o ShortestDecimal(-f.n)
                  ELSE ShortestDecimal(f.n)

\* s[1] sep s[2] sep ... s[n]
RECURSIVE JoinStrings(_, _)
JoinStrings(s, sep) ==
    IF Len(s) = 0 THEN ""
    ELSE IF Len(s) = 1 THEN s[1]
    ELSE s[1] \o sep \o JoinStrings(Tail(s), sep)

\* <Value as Display>::fmt
RECURSIVE ValueToString(_)
ValueToString(x) ==
    CASE x.tag = "String" -> "\"" \o x.str \o "\""
      [] x.tag = "Float" -> FloatToString(x.float)
      [] x.tag = "Int" -> IntToString(x.int)
      [] x.tag = "Boolean" -> BoolToString(x.bool)
      [] x.tag = "Tuple" ->
            "(" \o JoinStrings([i \in 1..Len(x.tup) |-> ValueToString(x.tup[i])], ", ") \o ")"
      [] OTHER -> "()"

\* str_from delegating every variant to Display
str_from_display(x) == ValueToString(x)

str_from(x) ==
    CASE x.tag = "String" -> x.str
      [] x.tag = "Float" -> FloatToString(x.float)
      [] x.tag = "Int" -> IntToString(x.int)
      [] x.tag = "Boolean" -> BoolToString(x.bool)
      [] x.tag = "Tuple" -> ValueToString(x)
      [] OTHER -> "()"

-----------------------------------------------------------------------------
(* The values the operations are called on *)

StringSamples == {"", "string"}
IntSamples == {IntMin, -1, 0, 3, 42, IntMax - 1, IntMax}
FloatSamples ==
    {NaN, PosInf, NegInf, Fin(0), FloatLit(33, 1), FloatLit(42, 1), FloatLit(-15, 1)}

\* every sequence over S of length at most n
SeqsUpTo(S, n) == UNION {[1..k -> S] : k \in 0..n}

LeafValues ==
    {from_string(s) : s \in StringSamples}
        \cup {from_int(i) : i \in IntSamples}
        \cup {from_float(f) : f \in FloatSamples}
        \cup {from_bool(x) : x \in BOOLEAN}
        \cup {from_unit}

InnerElems == {from_int(42), from_float(FloatLit(42, 1)), from_string(""), from_unit}
InnerTuples == {from_tuple(t) : t \in SeqsUpTo(InnerElems, 2)}

OuterElems ==
    {from_string("string"), from_float(FloatLit(33, 1)), from_int(3), from_unit,
     from_tuple(<<from_int(42), from_float(FloatLit(42, 1))>>)}
OuterTuples == {from_tuple(t) : t \in SeqsUpTo(OuterElems, MaxTupleLen)}

\* the tuple of tests::test_value_str_from
ExampleTuple ==
    from_tuple(<<from_string("string"), from_float(FloatLit(33, 1)), from_int(3),
                 from_tuple(<<from_int(42), from_float(FloatLit(42, 1))>>),
                 from_unit, from_bool(TRUE)>>)

Values == LeafValues \cup InnerTuples \cup OuterTuples \cup {ExampleTuple}

\* lengths and ranges the arity-checked accessors are asked for
Lengths == 0..(MaxTupleLen + 1)
Ranges == [start : Lengths, end : Lengths]

-----------------------------------------------------------------------------
(* The value model as a state machine: each step calls one operation on v *)

Init ==
    /\ v \in Values
    /\ a = 0
    /\ b = 0
    /\ overflow_checks = FALSE
    /\ fa = Fin(0)
    /\ ua = 0
    /\ pointer_width = IntBits
    /\ rand_enabled = FALSE
    /\ target = NotAsked
    /\ foreign = NotAsked
    /\ op = "init"
    /\ arg = <<>>
    /\ res = NoResult

\* a call through `&self`: the receiver is borrowed, not changed
Call(name, args, result) ==
    /\ op' = name
    /\ arg' = args
    /\ res' = result
    /\ UNCHANGED <<v, a, b, overflow_checks, fa, ua, pointer_width, rand_enabled,
                   target, foreign>>

IsString == Call("is_string", <<>>, OkBoolean(is_string(v)))
IsInt == Call("is_int", <<>>, OkBoolean(is_int(v)))
IsFloat == Call("is_float", <<>>, OkBoolean(is_float(v)))
IsNumber == Call("is_number", <<>>, OkBoolean(is_number(v)))
IsBoolean == Call("is_boolean", <<>>, OkBoolean(is_boolean(v)))
IsTuple == Call("is_tuple", <<>>, OkBoolean(is_tuple(v)))
IsEmpty == Call("is_empty", <<>>, OkBoolean(is_empty(v)))

AsString == Call("as_string", <<>>, as_string(v))
AsInt == Call("as_int", <<>>, as_int(v))
AsFloat == Call("as_float", <<>>, as_float(v))
AsNumber == Call("as_number", <<>>, as_number(v))
AsBoolean == Call("as_boolean", <<>>, as_boolean(v))
AsTuple == Call("as_tuple", <<>>, as_tuple(v))
AsEmpty == Call("as_empty", <<>>, as_empty(v))

AsFixedLenTuple ==
    \E len \in Lengths : Call("as_fixed_len_tuple", <<len>>, as_fixed_len_tuple(v, len))

AsRangedLenTuple ==
    \E range \in Ranges :
        Call("as_ranged_len_tuple", <<range>>, as_ranged_len_tuple(v, range))

StrFrom == Call("str_from", <<>>, OkString(str_from(v)))

Next ==
    \/ IsString \/ IsInt \/ IsFloat \/ IsNumber \/ IsBoolean \/ IsTuple \/ IsEmpty
    \/ AsString \/ AsInt \/ AsFloat \/ AsNumber \/ AsBoolean \/ AsTuple \/ AsEmpty
    \/ AsFixedLenTuple \/ AsRangedLenTuple
    \/ StrFrom

Spec == Init /\ [][Next]_vars

-----------------------------------------------------------------------------
(* The primitive integer type (i64 at the model's width).  Checked           *)
(* operations return an Option: <<x>> is Some(x), <<>> is None.              *)

Some(x) == <<x>>
None == <<>>

\* the two's-complement value of the low IntBits bits of x
Wrap(x) == ((x - IntMin) % Pow2(IntBits)) + IntMin

\* quotient truncated toward zero, as the hardware divides
TruncDiv(x, y) ==
    IF (x >= 0) = (y >= 0) THEN Abs(x) \div Abs(y) ELSE -(Abs(x) \div Abs(y))

prim_checked_add(x, y) == IF Wrap(x + y) = x + y THEN Some(x + y) ELSE None
prim_checked_sub(x, y) == IF Wrap(x - y) = x - y THEN Some(x - y) ELSE None
prim_checked_mul(x, y) == IF Wrap(x * y) = x * y THEN Some(x * y) ELSE None
prim_checked_neg(x) == IF Wrap(-x) = -x THEN Some(-x) ELSE None

prim_checked_div(x, y) ==
    IF y = 0 \/ (x = IntMin /\ y = -1) THEN None ELSE Some(TruncDiv(x, y))

prim_checked_rem(x, y) ==
    IF y = 0 \/ (x = IntMin /\ y = -1) THEN None ELSE Some(x - y * TruncDiv(x, y))

\* i64::abs inherits the caller's overflow checks: with them the negation of
\* MIN panics, without them it wraps back to MIN
prim_abs(x, checks) ==
    IF x >= 0 THEN OkInt(x)
    ELSE IF Wrap(-x) = -x THEN OkInt(-x)
    ELSE IF checks THEN Panic("attempt to negate with overflow")
    ELSE OkInt(Wrap(-x))

\* the shift amount the hardware uses: the low bits of the amount (rhs & 63 for
\* i64; the residue modulo the width, which is the same for a width that is a
\* power of two)
ShiftAmount(y) == y % IntBits

\* `<<` and `>>` inherit the caller's overflow checks: with them an amount
\* outside 0..BITS-1 panics, without them the amount is truncated
prim_shl(x, y, checks) ==
    IF checks /\ (y < 0 \/ y >= IntBits)
    THEN Panic("attempt to shift left with overflow")
    ELSE OkInt(Wrap(x * Pow2(ShiftAmount(y))))

prim_shr(x, y, checks) ==
    IF checks /\ (y < 0 \/ y >= IntBits)
    THEN Panic("attempt to shift right with overflow")
    ELSE OkInt(x \div Pow2(ShiftAmount(y)))

-----------------------------------------------------------------------------
(* impl EvalexprInt for i64 *)

\* EvalexprError constructors the integer operations call
addition_error(augend, addend) ==
    [error |-> "AdditionError", augend |-> augend, addend |-> addend]
subtraction_error(minuend, subtrahend) ==
    [error |-> "SubtractionError", minuend |-> minuend, subtrahend |-> subtrahend]
negation_error(argument) ==
    [error |-> "NegationError", argument |-> argument]
multiplication_error(multiplicand, multiplier) ==
    [error |-> "MultiplicationError", multiplicand |-> multiplicand,
     multiplier |-> multiplier]
division_error(dividend, divisor) ==
    [error |-> "DivisionError", dividend |-> dividend, divisor |-> divisor]
modulation_error(dividend, divisor) ==
    [error |-> "ModulationError", dividend |-> dividend, divisor |-> divisor]

\* checked_add through the wrapping primitive
checked_add_wrapping(self, rhs) == OkInt(Wrap(self + rhs))

checked_add(self, rhs) ==
    LET result == prim_checked_add(self, rhs)
    IN IF result # None THEN OkInt(result[1])
       ELSE Err(addition_error(from_int(self), from_int(rhs)))

checked_sub(self, rhs) ==
    LET result == prim_checked_sub(self, rhs)
    IN IF result # None THEN OkInt(result[1])
       ELSE Err(subtraction_error(from_int(self), from_int(rhs)))

checked_neg(self) ==
    LET result == prim_checked_neg(self)
    IN IF result # None THEN OkInt(result[1])
       ELSE Err(negation_error(from_int(self)))

\* checked_mul through the wrapping product
checked_mul_wrapping(self, rhs) == OkInt(Wrap(self * rhs))

checked_mul(self, rhs) ==
    LET result == prim_checked_mul(self, rhs)
    IN IF result # None THEN OkInt(result[1])
       ELSE Err(multiplication_error(from_int(self), from_int(rhs)))

\* checked_div through the `/` operator
checked_div_unchecked(self, rhs) ==
    IF rhs = 0 THEN Panic("attempt to divide by zero")
    ELSE IF self = IntMin /\ rhs = -1 THEN Panic("attempt to divide with overflow")
    ELSE OkInt(TruncDiv(self, rhs))

checked_div(self, rhs) ==
    LET result == prim_checked_div(self, rhs)
    IN IF result # None THEN OkInt(result[1])
       ELSE Err(division_error(from_int(self), from_int(rhs)))

\* checked_rem through the wrapping remainder, which is 0 for MIN and -1
checked_rem_wrapping(self, rhs) ==
    IF rhs = 0 THEN Err(modulation_error(from_int(self), from_int(rhs)))
    ELSE OkInt(self - rhs * Wrap(TruncDiv(self, rhs)))

checked_rem(self, rhs) ==
    LET result == prim_checked_rem(self, rhs)
    IN IF result # None THEN OkInt(result[1])
       ELSE Err(modulation_error(from_int(self), from_int(rhs)))

\* Ok((*self).abs())
abs(self, checks) == prim_abs(self, checks)

\* Shl::shl(*self, *rhs)
shl(self, rhs, checks) == prim_shl(self, rhs, checks)

\* Shr::shr(*self, *rhs)
shr(self, rhs, checks) == prim_shr(self, rhs, checks)

-----------------------------------------------------------------------------
(* The integer backend as a state machine: each step calls one operation on *)
(* the operands a and b of a program built with or without overflow checks. *)

\* right-hand sides: the edges of the type and every kind of shift amount
IntArgs ==
    {IntMin, IntMin + 1, -3, -2, -1, 0, 1, 2, 3,
     IntBits - 1, IntBits, IntBits + 1, IntMax - 1, IntMax}

InitInt ==
    /\ v = from_unit
    /\ a \in IntType
    /\ b \in IntArgs
    /\ overflow_checks \in BOOLEAN
    /\ fa = Fin(0)
    /\ ua = 0
    /\ pointer_width = IntBits
    /\ rand_enabled = FALSE
    /\ target = NotAsked
    /\ foreign = NotAsked
    /\ op = "init"
    /\ arg = <<>>
    /\ res = NoResult

CheckedAdd == Call("checked_add", <<a, b>>, checked_add(a, b))
CheckedSub == Call("checked_sub", <<a, b>>, checked_sub(a, b))
CheckedNeg == Call("checked_neg", <<a>>, checked_neg(a))
CheckedMul == Call("checked_mul", <<a, b>>, checked_mul(a, b))
CheckedDiv == Call("checked_div", <<a, b>>, checked_div(a, b))
CheckedRem == Call("checked_rem", <<a, b>>, checked_rem(a, b))
IntAbs == Call("abs", <<a>>, abs(a, overflow_checks))
IntShl == Call("shl", <<a, b>>, shl(a, b, overflow_checks))
IntShr == Call("shr", <<a, b>>, shr(a, b, overflow_checks))

NextInt ==
    \/ CheckedAdd \/ CheckedSub \/ CheckedNeg \/ CheckedMul
    \/ CheckedDiv \/ CheckedRem
    \/ IntAbs \/ IntShl \/ IntShr

SpecInt == InitInt /\ [][NextInt]_vars

-----------------------------------------------------------------------------
(* Properties of the value model (checked under Spec) *)

\* the variant each typed accessor asks for
AccessorKind ==
    [as_string |-> "String", as_int |-> "Int", as_float |-> "Float",
     as_boolean |-> "Boolean", as_tuple |-> "Tuple", as_empty |-> "Empty"]

\* the result r carries exactly the payload of the value x
SamePayload(r, x) ==
    LET fields == DOMAIN x \ {"tag"}
    IN /\ DOMAIN r = {"ok"} \cup (IF fields = {} THEN {"unit"} ELSE fields)
       /\ \A f \in fields : r[f] = x[f]

\* the error e is the type mismatch "expected kind, got actual"
IsTypeMismatch(e, kind, actual) ==
    /\ DOMAIN e = {"error", "actual"}
    /\ e.error = "Expected" \o kind
    /\ e.actual = actual

NearestToInt(f, i) ==
    /\ f.cls = "fin"
    /\ Representable(f.n)
    /\ LET u == Ulp(Abs(f.n))
       IN \A m \in (f.n - 2 * u)..(f.n + 2 * u) :
            Representable(m) => Abs(m - i * Unit) >= Abs(f.n - i * Unit)

\* C3: as_number returns a Float's payload unchanged, the backend's
\* int_as_float of an Int's payload (the nearest float, exact when the integer
\* fits the mantissa), and fails -- expected number, carrying the value -- only
\* for the other variants.
C3_AsNumber ==
    op = "as_number" =>
        CASE v.tag = "Float" -> res = OkFloat(v.float)
          [] v.tag = "Int" ->
                /\ res = OkFloat(int_as_float(v.int))
                /\ NearestToInt(res.float, v.int)
                /\ BitLen(Abs(v.int)) <= MantBits => res.float = Fin(v.int * Unit)
          [] OTHER -> IsErr(res) /\ IsTypeMismatch(res.err, "Number", v)

\* as_number converted the largest integer, which the float type cannot hold
\* exactly
C3_Witness ==
    /\ op = "as_number"
    /\ v = from_int(IntMax)
    /\ IsOk(res)
    /\ res.float = Fin((IntMax + 1) * Unit)

\* C4: as_fixed_len_tuple(n) succeeds, with the elements unchanged and in
\* order, exactly on a Tuple of n elements; it fails with TypeMismatch
\* (expected tuple) on another variant and with the fixed-arity error carrying
\* n and the whole value on a Tuple of another length.
C4_AsFixedLenTuple ==
    op = "as_fixed_len_tuple" =>
        LET n == arg[1]
        IN /\ IsOk(res) <=> (is_tuple(v) /\ Len(v.tup) = n)
           /\ IsOk(res) => res = OkTuple(v.tup)
           /\ ~is_tuple(v) => IsErr(res) /\ IsTypeMismatch(res.err, "Tuple", v)
           /\ (is_tuple(v) /\ Len(v.tup) # n) =>
                /\ IsErr(res)
                /\ res.err = [error |-> "ExpectedFixedLengthTuple",
                              expected_length |-> n, actual |-> v]

\* as_fixed_len_tuple(2) was refused on a 3-element tuple
C4_Witness ==
    /\ op = "as_fixed_len_tuple"
    /\ arg = <<2>>
    /\ is_tuple(v)
    /\ Len(v.tup) = 3
    /\ IsErr(res)
    /\ res.err.error = "ExpectedFixedLengthTuple"

\* C5: as_ranged_len_tuple(lo..=hi) succeeds, with the elements unchanged,
\* exactly on a Tuple whose length L has lo <= L <= hi (never for lo > hi); it
\* fails with TypeMismatch (expected tuple) on another variant and with the
\* ranged-arity error carrying the range and the whole value otherwise.
C5_AsRangedLenTuple ==
    op = "as_ranged_len_tuple" =>
        LET lo == arg[1].start
            hi == arg[1].end
        IN /\ IsOk(res) <=> (is_tuple(v) /\ lo <= Len(v.tup) /\ Len(v.tup) <= hi)
           /\ lo > hi => ~IsOk(res)
           /\ IsOk(res) => res = OkTuple(v.tup)
           /\ ~is_tuple(v) => IsErr(res) /\ IsTypeMismatch(res.err, "Tuple", v)
           /\ (is_tuple(v) /\ ~(lo <= Len(v.tup) /\ Len(v.tup) <= hi)) =>
                /\ IsErr(res)
                /\ res.err = [error |-> "ExpectedRangedLengthTuple",
                              expected_range |-> [start |-> lo, end |-> hi],
                              actual |-> v]

\* as_ranged_len_tuple(1..=3) returned a 2-element tuple unchanged
C5_Witness ==
    /\ op = "as_ranged_len_tuple"
    /\ arg = <<[start |-> 1, end |-> 3]>>
    /\ is_tuple(v)
    /\ Len(v.tup) = 2
    /\ res = OkTuple(v.tup)

\* how a value reads as an element of a rendered tuple
ElementText(e) == IF is_string(e) THEN "\"" \o e.str \o "\"" ELSE str_from(e)

\* the rendering of tests::test_value_str_from
ExampleText == "(\"string\", 3.3, 3, (42, 4.2), (), true)"

\* C6: str_from renders a top-level String as its text, Int and Float in
\* decimal, Boolean as true/false, Empty as (), and a Tuple as "(" + its
\* elements joined by ", " + ")", recursively, strings inside a tuple in double
\* quotes; the example tuple renders exactly as the example text.
C6_StrFrom ==
    op = "str_from" =>
        /\ IsOk(res)
        /\ is_string(v) => res.str = v.str
        /\ is_boolean(v) => res.str = (IF v.bool THEN "true" ELSE "false")
        /\ is_empty(v) => res.str = "()"
        /\ is_tuple(v) =>
             res.str = "(" \o JoinStrings([i \in 1..Len(v.tup) |-> ElementText(v.tup[i])],
                                           ", ") \o ")"
        /\ v = from_int(3) => res.str = "3"
        /\ v = from_int(42) => res.str = "42"
        /\ v = from_int(-1) => res.str = "-1"
        /\ v = from_float(FloatLit(33, 1)) => res.str = "3.3"
        /\ v = from_float(FloatLit(42, 1)) => res.str = "4.2"
        /\ v = from_float(FloatLit(-15, 1)) => res.str = "-1.5"
        /\ v = from_string("string") => res.str = "string"
        /\ v = ExampleTuple => res.str = ExampleText

\* str_from rendered the example tuple
C6_Witness ==
    /\ op = "str_from"
    /\ v = ExampleTuple
    /\ res = OkString(ExampleText)

-----------------------------------------------------------------------------
(* Properties of the integer backend (checked under SpecInt) *)

\* C7: checked_add(a, b) returns the exact sum when it lies in [MIN, MAX] and
\* otherwise fails with an AdditionError naming a and b in that order; it
\* never returns a wrapped result.
C7_CheckedAdd ==
    op = "checked_add" =>
        /\ arg = <<a, b>>
        /\ IF IntMin <= a + b /\ a + b <= IntMax
           THEN res = OkInt(a + b)
           ELSE /\ IsErr(res)
                /\ res.err = [error |-> "AdditionError",
                              augend |-> from_int(a), addend |-> from_int(b)]

\* checked_add(MAX, 1) failed
C7_Witness ==
    /\ op = "checked_add"
    /\ a = IntMax
    /\ b = 1
    /\ IsErr(res)

\* C8: checked_div(a, 0) fails with a DivisionError carrying a and 0 and
\* checked_rem(a, 0) with a ModulationError carrying a and 0: a returned
\* failure value, never a result and never an abort.
C8_DivRemByZero ==
    /\ (op = "checked_div" /\ b = 0) =>
            /\ IsErr(res)
            /\ ~IsPanic(res)
            /\ res.err = [error |-> "DivisionError",
                          dividend |-> from_int(a), divisor |-> from_int(0)]
    /\ (op = "checked_rem" /\ b = 0) =>
            /\ IsErr(res)
            /\ ~IsPanic(res)
            /\ res.err = [error |-> "ModulationError",
                          dividend |-> from_int(a), divisor |-> from_int(0)]

\* checked_rem(MIN, 0) returned its error
C8_Witness ==
    /\ op = "checked_rem"
    /\ a = IntMin
    /\ b = 0
    /\ IsErr(res)
    /\ res.err.error = "ModulationError"

\* C9: abs returns the non-negative absolute value of every input that has
\* one, and for MIN a failure value (AbsOverflow carrying the operand): it
\* neither wraps to a negative result nor terminates the process.
C9_AbsFailsOnMin ==
    op = "abs" =>
        IF a = IntMin
        THEN IsErr(res) /\ res.err = [error |-> "AbsOverflow", argument |-> from_int(a)]
        ELSE res = OkInt(Abs(a))

\* C10: shl(a, s) and shr(a, s) are total: for every shift amount, negative or
\* at least the bit width included, they return the natively truncated shift
\* and never fail or abort.
C10_ShiftsTotal ==
    /\ op = "shl" => res = OkInt(Wrap(a * Pow2(b % IntBits)))
    /\ op = "shr" => res = OkInt(a \div Pow2(b % IntBits))

\* C21: checked_sub(a, b) returns the exact difference when it lies in
\* [MIN, MAX] and otherwise fails with a SubtractionError carrying a and b;
\* checked_mul(a, b) the exact product, otherwise a MultiplicationError
\* carrying a and b; checked_neg(a) returns -a unless a is MIN, when it fails
\* with a NegationError carrying a. None returns a wrapped result.
C21_CheckedSubMulNeg ==
    /\ op = "checked_sub" =>
           IF IntMin <= a - b /\ a - b <= IntMax
           THEN res = OkInt(a - b)
           ELSE res = Err([error |-> "SubtractionError",
                           minuend |-> from_int(a), subtrahend |-> from_int(b)])
    /\ op = "checked_mul" =>
           IF IntMin <= a * b /\ a * b <= IntMax
           THEN res = OkInt(a * b)
           ELSE res = Err([error |-> "MultiplicationError",
                           multiplicand |-> from_int(a), multiplier |-> from_int(b)])
    /\ op = "checked_neg" =>
           IF a # IntMin
           THEN res = OkInt(-a)
           ELSE res = Err([error |-> "NegationError", argument |-> from_int(a)])

\* checked_mul(MIN, -1) failed: the product is one above MAX
C21_Witness ==
    /\ op = "checked_mul"
    /\ a = IntMin
    /\ b = -1
    /\ IsErr(res)
    /\ res.err.error = "MultiplicationError"

\* C22: checked_div(a, b) and checked_rem(a, b) fail exactly when b is 0 or a
\* is MIN and b is -1, each with its own error carrying a and b; otherwise
\* the quotient q is truncated toward zero and the remainder r has the sign of
\* a, with a = q * b + r and |r| < |b|. checked_rem(MIN, -1) fails although
\* the remainder 0 is representable.
C22_CheckedDivRem ==
    /\ op = "checked_div" =>
           IF b = 0 \/ (a = IntMin /\ b = -1)
           THEN res = Err([error |-> "DivisionError",
                           dividend |-> from_int(a), divisor |-> from_int(b)])
           ELSE /\ IsOk(res)
                /\ Abs(a - res.int * b) < Abs(b)
                /\ Abs(res.int * b) <= Abs(a)
    /\ op = "checked_rem" =>
           IF b = 0 \/ (a = IntMin /\ b = -1)
           THEN res = Err([error |-> "ModulationError",
                           dividend |-> from_int(a), divisor |-> from_int(b)])
           ELSE /\ IsOk(res)
                /\ Abs(res.int) < Abs(b)
                /\ res.int # 0 => (res.int > 0) = (a > 0)
                /\ (a - res.int) % Abs(b) = 0

\* checked_rem(MIN, -1) failed
C22_Witness ==
    /\ op = "checked_rem"
    /\ a = IntMin
    /\ b = -1
    /\ res = Err(modulation_error(from_int(IntMin), from_int(-1)))

-----------------------------------------------------------------------------
(* usize, the casts between Int and Float, and random of the default backend *)

\* usize is as wide as Int (a 64-bit target) or half as wide (a 32-bit target)
PointerWidths == {IntBits \div 2, IntBits}
UsizeMax(width) == Pow2(width) - 1
UsizeType(width) == 0..UsizeMax(width)

OkUsize(n) == [ok |-> TRUE, usize |-> n]

int_from_usize_error(usize_int) == [error |-> "IntFromUsize", usize_int |-> usize_int]
int_into_usize_error(int) == [error |-> "IntIntoUsize", int |-> int]
rand_not_enabled == [error |-> "RandNotEnabled"]

\* usize::try_into::<i64>: fails above i64::MAX
usize_try_into_int(n) == IF n <= IntMax THEN Some(n) ELSE None

\* u64::try_into::<usize>: fails above usize::MAX
u64_try_into_usize(n, width) == IF n <= UsizeMax(width) THEN Some(n) ELSE None

from_usize(int) ==
    LET r == usize_try_into_int(int)
    IN IF r # None THEN OkInt(r[1]) ELSE Err(int_from_usize_error(int))

\* into_usize as the plain cast `self as usize`
into_usize_as_cast(self, width) == OkUsize(self % Pow2(width))

into_usize(self, width) ==
    IF self >= 0
    THEN LET r == u64_try_into_usize(self % Pow2(IntBits), width)
         IN IF r # None THEN OkUsize(r[1]) ELSE Err(int_into_usize_error(self))
    ELSE Err(int_into_usize_error(self))

\* float_as_int through a checked conversion that is unwrapped
float_as_int_unwrap(float) ==
    IF float.cls = "fin" /\ TruncDiv(float.n, Unit) \in IntType
    THEN OkInt(TruncDiv(float.n, Unit))
    ELSE Panic("called Option::unwrap on a None value")

\* the cast of a float to i64: truncates toward zero, saturates at the ends of the type,
\* and sends NaN to 0
float_as_int(float) ==
    IF float.cls = "nan" THEN OkInt(0)
    ELSE IF float.cls = "inf" THEN OkInt(IF float.n > 0 THEN IntMax ELSE IntMin)
    ELSE LET t == TruncDiv(float.n, Unit)
         IN OkInt(IF t > IntMax THEN IntMax ELSE IF t < IntMin THEN IntMin ELSE t)

\* what rand::random::<f64>() can return: the floats of [0, 1)
RandomFloats == {Fin(n) : n \in 0..(Unit - 1)}

\* random with the feature test left out
random_unconditional(enabled, sample) == OkFloat(sample)

random(enabled, sample) ==
    IF enabled THEN OkFloat(sample) ELSE Err(rand_not_enabled)

\* every finite value of the float type, and the three that are not finite
FiniteFloats ==
    {Fin(s * m * Pow2(k)) : s \in {-1, 1}, m \in 0..(Pow2(MantBits) - 1), k \in 0..TopShift}
AllFloats == FiniteFloats \cup {NaN, PosInf, NegInf}

\* one operand or one build setting varies at a time
InitScalar ==
    /\ v = from_unit
    /\ b = 0
    /\ overflow_checks = FALSE
    /\ \/ /\ pointer_width \in PointerWidths
          /\ \/ a \in IntType /\ ua = 0
             \/ a = 0 /\ ua \in UsizeType(pointer_width)
          /\ fa = Fin(0)
          /\ rand_enabled = FALSE
       \/ /\ pointer_width = IntBits
          /\ a = 0
          /\ ua = 0
          /\ \/ fa \in AllFloats /\ rand_enabled = FALSE
             \/ fa = Fin(0) /\ rand_enabled = TRUE
    /\ target = NotAsked
    /\ foreign = NotAsked
    /\ op = "init"
    /\ arg = <<>>
    /\ res = NoResult

FromUsize == Call("from_usize", <<ua>>, from_usize(ua))
IntoUsize == Call("into_usize", <<a>>, into_usize(a, pointer_width))
IntAsFloat == Call("int_as_float", <<a>>, OkFloat(int_as_float(a)))
FloatAsInt == Call("float_as_int", <<fa>>, float_as_int(fa))
Random == \E sample \in RandomFloats : Call("random", <<>>, random(rand_enabled, sample))

NextScalar ==
    \/ FromUsize
    \/ IntoUsize
    \/ IntAsFloat
    \/ FloatAsInt
    \/ Random

SpecScalar == InitScalar /\ [][NextScalar]_vars

\* C11: into_usize(i) returns i exactly when 0 <= i <= usize::MAX and fails
\* with IntIntoUsize carrying i otherwise; from_usize(n) returns n exactly when
\* n <= i64::MAX and fails with IntFromUsize carrying n otherwise.
C11_UsizeConversions ==
    /\ op = "into_usize" =>
           IF 0 <= a /\ a <= UsizeMax(pointer_width)
           THEN res = OkUsize(a)
           ELSE res = Err([error |-> "IntIntoUsize", int |-> a])
    /\ op = "from_usize" =>
           IF ua <= IntMax
           THEN res = OkInt(ua)
           ELSE res = Err([error |-> "IntFromUsize", usize_int |-> ua])

\* into_usize refused a non-negative integer above usize::MAX (a target whose
\* usize is narrower than Int)
C11_Witness ==
    /\ op = "into_usize"
    /\ a > UsizeMax(pointer_width)
    /\ res = Err(int_into_usize_error(a))

\* C12: int_as_float and float_as_int return a value of the target type for
\* every integer and every float (out of range, infinite and NaN included);
\* the value is the nearest one the target type has.
C12_CastsTotal ==
    /\ op = "int_as_float" =>
           /\ IsOk(res)
           /\ res.float \in FiniteFloats
           /\ NearestToInt(res.float, a)
    /\ op = "float_as_int" =>
           /\ IsOk(res)
           /\ res.int \in IntType
           /\ fa.cls = "fin" /\ TruncDiv(fa.n, Unit) \in IntType
                  => Abs(res.int * Unit - fa.n) < Unit

\* float_as_int returned for a finite float beyond the integer range
C12_Witness ==
    /\ op = "float_as_int"
    /\ fa.cls = "fin"
    /\ fa.n > IntMax * Unit
    /\ res = OkInt(IntMax)

\* the element sequences the tuples of the value model are built from
TupleBodies ==
    SeqsUpTo(InnerElems, 2) \cup SeqsUpTo(OuterElems, MaxTupleLen) \cup {ExampleTuple.tup}

\* C19: a value built by a constructor answers its own predicate and gives
\* its payload back: from_int(i) is_int and as_int = Ok(i), and the same for
\* from_float, Value::from of a text, a boolean and an element sequence;
\* Value::from(()) is_empty.
C19_ConstructThenAccess ==
    /\ \A i \in IntSamples : v = from_int(i) =>
           /\ op = "is_int" => res = OkBoolean(TRUE)
           /\ op = "as_int" => res = OkInt(i)
    /\ \A x \in FloatSamples : v = from_float(x) =>
           /\ op = "is_float" => res = OkBoolean(TRUE)
           /\ op = "as_float" => res = OkFloat(x)
    /\ \A s \in StringSamples : v = from_string(s) =>
           /\ op = "is_string" => res = OkBoolean(TRUE)
           /\ op = "as_string" => res = OkString(s)
    /\ \A x \in BOOLEAN : v = from_bool(x) =>
           /\ op = "is_boolean" => res = OkBoolean(TRUE)
           /\ op = "as_boolean" => res = OkBoolean(x)
    /\ \A t \in TupleBodies : v = from_tuple(t) =>
           /\ op = "is_tuple" => res = OkBoolean(TRUE)
           /\ op = "as_tuple" => res = OkTuple(t)
    /\ v = from_unit =>
           /\ op = "is_empty" => res = OkBoolean(TRUE)
           /\ op = "as_empty" => res = OkUnit

\* as_float gave back the 3.3 that from_float was given
C19_Witness ==
    /\ op = "as_float"
    /\ v = from_float(FloatLit(33, 1))
    /\ res = OkFloat(FloatLit(33, 1))

\* what the six variant predicates, and the six variant accessors, say of x
VariantPredicates(x) ==
    <<is_string(x), is_int(x), is_float(x), is_boolean(x), is_tuple(x), is_empty(x)>>
VariantAccessors(x) ==
    <<as_string(x), as_int(x), as_float(x), as_boolean(x), as_tuple(x), as_empty(x)>>

C20_Random ==
    op = "random" =>
        IF rand_enabled
        THEN /\ IsOk(res)
             /\ res.float.cls = "fin"
             /\ 0 <= res.float.n
             /\ res.float.n < Unit
        ELSE res = Err([error |-> "RandNotEnabled"])

\* random returned a float above 0 with the feature
C20_Witness ==
    op = "random" /\ rand_enabled /\ IsOk(res) /\ res.float.n > 0

-----------------------------------------------------------------------------
(* Backends: the scalar types a Value is built over, and the casts between *)
(* them (num_traits::cast and AsPrimitive::as_)                            *)

\* a primitive integer type: its std::any::type_name, signedness and width
IntTy(name, signed, bits) == [name |-> name, signed |-> signed, bits |-> bits]
\* a primitive float type: its type_name, the bits of its mantissa, and the
\* least and greatest exponent of its unit in the last place (in model units)
FloatTy(name, mant, min_exp, max_exp) ==
    [name |-> name, mant |-> mant, min_exp |-> min_exp, max_exp |-> max_exp]

I64 == IntTy("i64", TRUE, IntBits)
U64 == IntTy("u64", FALSE, IntBits)
I32 == IntTy("i32", TRUE, IntBits \div 2)
I128 == IntTy("i128", TRUE, 2 * IntBits)
F64 == FloatTy("f64", MantBits, 0, TopShift)
F32 == FloatTy("f32", MantBits - 3, 1, TopShift - 2)

IntLo(ty) == IF ty.signed THEN -Pow2(ty.bits - 1) ELSE 0
IntHi(ty) == IF ty.signed THEN Pow2(ty.bits - 1) - 1 ELSE Pow2(ty.bits) - 1

\* an implementation of EvalexprNumericTypes: its Int and its Float
NumericTypes(int, float) == [Int |-> int, Float |-> float]
DefaultNumericTypes == NumericTypes(I64, F64)
Backends ==
    {DefaultNumericTypes, NumericTypes(I32, F32), NumericTypes(U64, F64),
     NumericTypes(I128, F32)}

\* spacing of the values of a float type at magnitude m, and its greatest
\* finite magnitude
UlpIn(ty, m) == Pow2(Max2(ty.min_exp, BitLen(m) - ty.mant))
MaxIn(ty) == (Pow2(ty.mant) - 1) * Pow2(ty.max_exp)
RepresentableIn(ty, n) == Abs(n) <= MaxIn(ty) /\ Abs(n) % UlpIn(ty, Abs(n)) = 0

\* the magnitude of the float type nearest to m units, ties to the even mantissa
RoundIn(ty, m) ==
    LET ulp == UlpIn(ty, m)
        lo == (m \div ulp) * ulp
        twice == 2 * (m - lo)
        up == twice > ulp \/ (twice = ulp /\ (lo \div ulp) % 2 = 1)
    IN IF up THEN lo + ulp ELSE lo

\* `n as <float type>` for a number of n units: the nearest value, an infinity
\* beyond the greatest finite one
units_as_float(n, ty) ==
    LET m == RoundIn(ty, Abs(n))
    IN IF m > MaxIn(ty) THEN (IF n < 0 THEN NegInf ELSE PosInf)
       ELSE Fin(IF n < 0 THEN -m ELSE m)

\* the float carried over bit for bit, whatever the float type
float_as_float_unrounded(float, ty) == float

\* `float as <float type>`
float_as_float(float, ty) ==
    IF float.cls = "fin" THEN units_as_float(float.n, ty) ELSE float

\* `int as <integer type>`: the low bits of the two's complement
int_as_int(int, ty) == ((int - IntLo(ty)) % Pow2(ty.bits)) + IntLo(ty)

\* a number of a primitive type outside the backend
NumInt(i) == [kind |-> "int", int |-> i]
NumFloat(x) == [kind |-> "float", float |-> x]

\* the cast to an integer type through the unsigned conversion, which has no
\* negative number
cast_to_int_unsigned(num, ty) ==
    IF num.kind = "int" /\ 0 <= num.int /\ num.int <= IntHi(ty) THEN Some(num.int)
    ELSE None

\* num_traits::cast to an integer type (ToPrimitive::to_i64 and the like):
\* None out of range; a float is truncated toward zero, NaN and the
\* infinities are out of range
cast_to_int(num, ty) ==
    IF num.kind = "int"
    THEN IF IntLo(ty) <= num.int /\ num.int <= IntHi(ty) THEN Some(num.int) ELSE None
    ELSE IF num.float.cls # "fin" THEN None
    ELSE LET t == TruncDiv(num.float.n, Unit)
         IN IF IntLo(ty) <= t /\ t <= IntHi(ty) THEN Some(t) ELSE None

\* num_traits::cast to a float type (ToPrimitive::to_f64 and the like): the
\* plain cast, which every number has
cast_to_float(num, ty) ==
    IF num.kind = "int"
    THEN Some(units_as_float(num.int * Unit, ty))
    ELSE Some(float_as_float(num.float, ty))

OkValue(x) == [ok |-> TRUE, value |-> x]
OkOption(o) == [ok |-> TRUE, option |-> o]

float_to_num_error(float, target_type) ==
    [error |-> "FloatToNum", float |-> float, target_type |-> target_type]
int_to_num_error(int, target_type) ==
    [error |-> "IntToNum", int |-> int, target_type |-> target_type]
float_cast_error == [error |-> "FloatCastError"]
int_cast_error == [error |-> "IntCastError"]

-----------------------------------------------------------------------------
(* Conversion of a Value to another backend, and construction of a Value *)
(* from a primitive of another type                                      *)

\* what a conversion returns, with the values try_convert was called on, in
\* the order of the calls
ConvOk(x, visited) == [ok |-> TRUE, value |-> x, visited |-> visited]
ConvErr(e, visited) == [ok |-> FALSE, err |-> e, visited |-> visited]

RECURSIVE try_convert(_, _)
RECURSIVE try_convert_elements(_, _, _)
RECURSIVE try_convert_elements_eager(_, _, _)

\* the elements converted one and all, the last error reported
try_convert_elements_eager(tuple, i, B) ==
    IF i > Len(tuple) THEN [ok |-> TRUE, tup |-> <<>>, visited |-> <<>>]
    ELSE LET r == try_convert(tuple[i], B)
             rest == try_convert_elements_eager(tuple, i + 1, B)
         IN IF ~rest.ok THEN ConvErr(rest.err, r.visited \o rest.visited)
            ELSE IF ~r.ok THEN ConvErr(r.err, r.visited \o rest.visited)
            ELSE [ok |-> TRUE, tup |-> <<r.value>> \o rest.tup,
                  visited |-> r.visited \o rest.visited]

\* value.iter().map(try_convert).collect::<Result<Vec<_>, _>>() from element i
\* on: the iterator is not advanced past the first Err
try_convert_elements(tuple, i, B) ==
    IF i > Len(tuple) THEN [ok |-> TRUE, tup |-> <<>>, visited |-> <<>>]
    ELSE LET r == try_convert(tuple[i], B)
         IN IF ~r.ok THEN r
            ELSE LET rest == try_convert_elements(tuple, i + 1, B)
                 IN IF ~rest.ok THEN ConvErr(rest.err, r.visited \o rest.visited)
                    ELSE [ok |-> TRUE, tup |-> <<r.value>> \o rest.tup,
                          visited |-> r.visited \o rest.visited]

try_convert(value, B) ==
    CASE value.tag = "String" -> ConvOk(ValueString(value.str), <<value>>)
      [] value.tag = "Float" ->
            LET r == cast_to_float(NumFloat(value.float), B.Float)
            IN IF r # None THEN ConvOk(ValueFloat(r[1]), <<value>>)
               ELSE ConvErr(float_to_num_error(value.float, B.Float.name), <<value>>)
      [] value.tag = "Int" ->
            LET r == cast_to_int(NumInt(value.int), B.Int)
            IN IF r # None THEN ConvOk(ValueInt(r[1]), <<value>>)
               ELSE ConvErr(int_to_num_error(value.int, B.Float.name), <<value>>)
      [] value.tag = "Boolean" -> ConvOk(ValueBoolean(value.bool), <<value>>)
      [] value.tag = "Tuple" ->
            LET r == try_convert_elements(value.tup, 1, B)
            IN IF r.ok THEN ConvOk(ValueTuple(r.tup), <<value>> \o r.visited)
               ELSE ConvErr(r.err, <<value>> \o r.visited)
      [] value.tag = "Empty" -> ConvOk(ValueEmpty, <<value>>)

try_as_(self, B) == try_convert(self, B)

\* a value converted to backend B and the result converted back to backend A
round_trip(value, A, B) ==
    LET there == try_convert(value, B)
    IN IF there.ok THEN try_convert(there.value, A) ELSE there

num_to_int(n, B) == cast_to_int(n, B.Int)
num_to_float(n, B) == cast_to_float(n, B.Float)

\* primitives that are not numbers
PrimBool(x) == [kind |-> "bool", bool |-> x]
PrimString(s) == [kind |-> "String", str |-> s]
PrimStr(s) == [kind |-> "str", str |-> s]
PrimUnit == [kind |-> "unit"]

\* into_with with the plain cast in place of the checked one
into_with_as_cast(self, V) ==
    CASE self.kind = "int" -> OkOption(Some(ValueInt(int_as_int(self.int, V.Int))))
      [] self.kind = "float" ->
            OkOption(Some(ValueFloat(float_as_float(self.float, V.Float))))
      [] self.kind = "bool" -> OkOption(Some(from_bool(self.bool)))
      [] self.kind \in {"String", "str"} -> OkOption(Some(from_string(self.str)))
      [] self.kind = "unit" -> OkOption(Some(from_unit))

\* ConvertibleWithEvalexprNumericTypes::into_with of the primitive types
into_with(self, V) ==
    CASE self.kind = "int" ->
            LET r == num_to_int(self, V)
            IN IF r # None THEN OkOption(Some(ValueInt(r[1]))) ELSE OkOption(None)
      [] self.kind = "float" ->
            LET r == num_to_float(self, V)
            IN IF r # None THEN OkOption(Some(ValueFloat(r[1]))) ELSE OkOption(None)
      [] self.kind = "bool" -> OkOption(Some(from_bool(self.bool)))
      [] self.kind \in {"String", "str"} -> OkOption(Some(from_string(self.str)))
      [] self.kind = "unit" -> OkOption(Some(from_unit))

RECURSIVE value_into_with(_, _)
RECURSIVE tuple_into_with(_, _)
RECURSIVE tuple_elements_into_with(_, _, _)
RECURSIVE tuple_elements_into_with_lenient(_, _, _)

\* the elements ingested with the failing ones left out
tuple_elements_into_with_lenient(tuple, i, V) ==
    IF i > Len(tuple) THEN Some(<<>>)
    ELSE LET r == value_into_with(tuple[i], V).option
             rest == tuple_elements_into_with_lenient(tuple, i + 1, V)
         IN IF r = None THEN rest ELSE Some(<<r[1]>> \o rest[1])

\* self.into_iter().map(|value| value.into_with::<V>()).collect::<Option<Vec<_>>>()
\* from element i on: None at the first element that is None
tuple_elements_into_with(tuple, i, V) ==
    IF i > Len(tuple) THEN Some(<<>>)
    ELSE LET r == value_into_with(tuple[i], V).option
         IN IF r = None THEN None
            ELSE LET rest == tuple_elements_into_with(tuple, i + 1, V)
                 IN IF rest = None THEN None ELSE Some(<<r[1]>> \o rest[1])

\* into_with of a TupleType
tuple_into_with(self, V) ==
    LET r == tuple_elements_into_with(self, 1, V)
    IN IF r # None THEN OkOption(Some(ValueTuple(r[1]))) ELSE OkOption(None)

\* into_with of a Value
value_into_with(self, V) ==
    CASE self.tag = "String" -> into_with(PrimString(self.str), V)
      [] self.tag = "Float" ->
            LET r == num_to_float(NumFloat(self.float), V)
            IN IF r # None THEN OkOption(Some(ValueFloat(r[1]))) ELSE OkOption(None)
      [] self.tag = "Int" ->
            LET r == num_to_int(NumInt(self.int), V)
            IN IF r # None THEN OkOption(Some(ValueInt(r[1]))) ELSE OkOption(None)
      [] self.tag = "Boolean" -> into_with(PrimBool(self.bool), V)
      [] self.tag = "Tuple" -> tuple_into_with(self.tup, V)
      [] self.tag = "Empty" -> OkOption(Some(ValueEmpty))

from_as_float(float, B) == ValueFloat(float_as_float(float.float, B.Float))

from_as_int(int, B) == ValueInt(int_as_int(int.int, B.Int))

from_cast_float(float, B) ==
    LET r == cast_to_float(float, B.Float)
    IN IF r # None THEN OkValue(ValueFloat(r[1])) ELSE Err(float_cast_error)

\* from_cast_int through the plain cast, which wraps
from_cast_int_wrapping(int, B) ==
    LET i == IF int.kind = "int" THEN int.int
             ELSE IF int.float.cls = "fin" THEN TruncDiv(int.float.n, Unit)
             ELSE 0
    IN OkValue(ValueInt(int_as_int(i, B.Int)))

from_cast_int(int, B) ==
    LET r == cast_to_int(int, B.Int)
    IN IF r # None THEN OkValue(ValueInt(r[1])) ELSE Err(int_cast_error)

\* the values that are converted: scalars that fit every backend, some that
\* fit only the wider ones, and tuples of them, nested once
ConvInts == {-1, 3, 42, IntMax}
ConvFloats == {NaN, PosInf, Fin(0), Fin(3 * Pow2(FracBits - 1)), FloatLit(33, 1), Fin(-MaxUnits)}
ConvLeaves ==
    {from_string("string"), from_bool(TRUE), from_unit}
        \cup {from_int(i) : i \in ConvInts} \cup {from_float(x) : x \in ConvFloats}
ConvElems ==
    {from_int(3), from_int(-1), from_int(42), from_float(FloatLit(33, 1)),
     from_float(Fin(3 * Pow2(FracBits - 1))), from_string("string"),
     from_tuple(<<from_int(3), from_int(IntMax)>>), from_tuple(<<>>)}
ConvValues == ConvLeaves \cup {from_tuple(t) : t \in SeqsUpTo(ConvElems, MaxTupleLen)}

\* the primitives that are ingested: integers around the ends of every integer
\* type, every float, and the primitives that are not numbers
ForeignInts ==
    {0, 3, 42}
        \cup UNION {{IntLo(ty) - 1, IntLo(ty), IntHi(ty), IntHi(ty) + 1} :
                        ty \in {I32, I64, U64, I128}}
Foreigners ==
    {NumInt(i) : i \in ForeignInts} \cup {NumFloat(x) : x \in AllFloats}
        \cup {PrimBool(x) : x \in BOOLEAN}
        \cup {PrimString(x) : x \in StringSamples} \cup {PrimStr(x) : x \in StringSamples}
        \cup {PrimUnit}

\* a value of the default backend to convert, or a primitive to ingest
InitConv ==
    /\ a = 0
    /\ b = 0
    /\ overflow_checks = FALSE
    /\ fa = Fin(0)
    /\ ua = 0
    /\ pointer_width = IntBits
    /\ rand_enabled = FALSE
    /\ target \in Backends
    /\ \/ v \in ConvValues /\ foreign = PrimUnit
       \/ v = from_unit /\ foreign \in Foreigners
    /\ op = "init"
    /\ arg = <<>>
    /\ res = NoResult

TryConvert == Call("try_convert", <<target.Int.name, target.Float.name>>, try_convert(v, target))
TryAs == Call("try_as_", <<target.Int.name, target.Float.name>>, try_as_(v, target))
RoundTrip ==
    Call("round_trip", <<target.Int.name, target.Float.name>>,
         round_trip(v, DefaultNumericTypes, target))
IntoWith == Call("into_with", <<foreign>>, into_with(foreign, target))
ValueIntoWith == Call("value_into_with", <<v>>, value_into_with(v, target))
FromAsFloat ==
    /\ foreign.kind = "float"
    /\ Call("from_as_float", <<foreign>>, from_as_float(foreign, target))
FromAsInt ==
    /\ foreign.kind = "int"
    /\ Call("from_as_int", <<foreign>>, from_as_int(foreign, target))
FromCastFloat ==
    /\ foreign.kind \in {"int", "float"}
    /\ Call("from_cast_float", <<foreign>>, from_cast_float(foreign, target))
FromCastInt ==
    /\ foreign.kind \in {"int", "float"}
    /\ Call("from_cast_int", <<foreign>>, from_cast_int(foreign, target))

NextConv ==
    \/ TryConvert
    \/ TryAs
    \/ RoundTrip
    \/ IntoWith
    \/ ValueIntoWith
    \/ FromAsFloat
    \/ FromAsInt
    \/ FromCastFloat
    \/ FromCastInt

SpecConv == InitConv /\ [][NextConv]_vars

\* the values of a tree in the order a depth-first walk meets them
RECURSIVE Nodes(_)
RECURSIVE NodesFrom(_, _)
NodesFrom(tuple, i) ==
    IF i > Len(tuple) THEN <<>> ELSE Nodes(tuple[i]) \o NodesFrom(tuple, i + 1)
Nodes(x) == IF x.tag = "Tuple" THEN <<x>> \o NodesFrom(x.tup, 1) ELSE <<x>>

\* the numeric payload of x has a value in the scalar type of backend B that
\* the cast of the conversion accepts
Castable(x, B) ==
    x.tag = "Int" => IntLo(B.Int) <= x.int /\ x.int <= IntHi(B.Int)
\* the numeric payload of x is a value of the scalar type of backend B
Exact(x, B) ==
    /\ Castable(x, B)
    /\ x.tag = "Float" /\ x.float.cls = "fin" => RepresentableIn(B.Float, x.float.n)
FailingNodes(x, B) == {i \in 1..Len(Nodes(x)) : ~Castable(Nodes(x)[i], B)}
FirstFailing(x, B) ==
    CHOOSE i \in FailingNodes(x, B) : \A j \in FailingNodes(x, B) : i <= j

\* y is what the float x becomes in the float type ty: x itself when ty has
\* it, else a neighbour of x in ty, an infinity only beyond the range of ty
FloatCastOf(x, y, ty) ==
    /\ x.cls # "fin" => y = x
    /\ x.cls = "fin" /\ RepresentableIn(ty, x.n) => y = x
    /\ x.cls = "fin" => y.cls # "nan"
    /\ y.cls = "fin" =>
           /\ RepresentableIn(ty, y.n)
           /\ 2 * Abs(y.n - x.n) <= UlpIn(ty, Abs(x.n))
    /\ x.cls = "fin" /\ y.cls = "inf" => Abs(x.n) > MaxIn(ty) /\ (y.n > 0) = (x.n > 0)

RECURSIVE SameStructure(_, _, _)
SameStructure(x, y, B) ==
    /\ y.tag = x.tag
    /\ CASE x.tag = "String" -> y = x
         [] x.tag = "Boolean" -> y = x
         [] x.tag = "Empty" -> y = x
         [] x.tag = "Int" -> y.int = x.int /\ Castable(y, B)
         [] x.tag = "Float" -> FloatCastOf(x.float, y.float, B.Float)
         [] x.tag = "Tuple" ->
               /\ Len(y.tup) = Len(x.tup)
               /\ \A i \in 1..Len(x.tup) : SameStructure(x.tup[i], y.tup[i], B)

\* C13: when try_convert or try_as_ succeeds the result has the structure of
\* the source: the same variant, String / Boolean / Empty copied, an Int with
\* the same number, a Float with the payload cast to the target float type, a
\* Tuple of the same length converted element by element.
C13_ConversionKeepsStructure ==
    op \in {"try_convert", "try_as_"} /\ res.ok => SameStructure(v, res.value, target)

\* a tuple holding a float the target lacks and a tuple was converted
C13_Witness ==
    /\ op = "try_convert"
    /\ target = NumericTypes(I32, F32)
    /\ v = from_tuple(<<from_int(3), from_float(FloatLit(33, 1)), from_tuple(<<>>)>>)
    /\ res.ok
    /\ res.value.tup[2] # v.tup[2]

\* C14: a conversion fails exactly when some numeric payload does not cast to
\* the target's scalar type; a failing Int yields the error carrying that
\* integer and the type name of the target backend's integer type (a failing
\* Float: the float and the type name of the target's float type).
C14_FailureNamesTargetType ==
    op = "try_convert" =>
        /\ ~res.ok <=> FailingNodes(v, target) # {}
        /\ ~res.ok =>
               LET x == Nodes(v)[FirstFailing(v, target)]
               IN IF x.tag = "Int"
                  THEN res.err = int_to_num_error(x.int, target.Int.name)
                  ELSE res.err = float_to_num_error(x.float, target.Float.name)

\* C15: the conversion of a tuple stops at the first element that fails, in
\* depth-first order from the left: the error is that element's, no value
\* after it is converted, and no tuple is returned.
C15_TupleShortCircuits ==
    op = "try_convert" /\ v.tag = "Tuple" /\ FailingNodes(v, target) # {} =>
        LET k == FirstFailing(v, target)
        IN /\ ~res.ok
           /\ "value" \notin DOMAIN res
           /\ res.err = try_convert(Nodes(v)[k], target).err
           /\ res.visited = SubSeq(Nodes(v), 1, k)

\* a tuple with a failing integer inside its first element, a second failing
\* integer and a further element after it
C15_Witness ==
    /\ op = "try_convert"
    /\ target.Int = I32
    /\ v = from_tuple(<<from_tuple(<<from_int(3), from_int(IntMax)>>),
                        from_int(42), from_int(3)>>)
    /\ res.err.int = IntMax

\* C16: converting a value to backend B and the result back to backend A
\* gives the value again whenever every numeric payload is a value of the
\* scalar types of both backends.
C16_RoundTrip ==
    op = "round_trip" /\ (\A i \in 1..Len(Nodes(v)) : Exact(Nodes(v)[i], target)) =>
        res.ok /\ res.value = v

\* a tuple with a negative integer and a float went to the narrow backend and
\* back
C16_Witness ==
    /\ op = "round_trip"
    /\ target = NumericTypes(I32, F32)
    /\ v = from_tuple(<<from_int(-1), from_float(Fin(3 * Pow2(FracBits - 1))),
                        from_string("string")>>)
    /\ res.ok

\* C17: into_with of an integer primitive gives Some(Int(x)) when x is in the
\* range of the backend's integer type and None otherwise; of a float
\* primitive Some(Float) of the cast float; of a bool, String, &str or unit
\* always Some of the matching variant. A failed cast is None, never an
\* error and never a wrapped number.
C17_IntoWith ==
    op = "into_with" =>
        CASE foreign.kind = "int" ->
                IF IntLo(target.Int) <= foreign.int /\ foreign.int <= IntHi(target.Int)
                THEN res = OkOption(Some(ValueInt(foreign.int)))
                ELSE res = OkOption(None)
          [] foreign.kind = "float" ->
                /\ res.option # None
                /\ res.option[1].tag = "Float"
                /\ FloatCastOf(foreign.float, res.option[1].float, target.Float)
          [] foreign.kind = "bool" -> res = OkOption(Some(ValueBoolean(foreign.bool)))
          [] foreign.kind \in {"String", "str"} ->
                res = OkOption(Some(ValueString(foreign.str)))
          [] foreign.kind = "unit" -> res = OkOption(Some(ValueEmpty))

\* an integer above the range of the backend's integer type was ingested
C17_Witness ==
    /\ op = "into_with"
    /\ foreign.kind = "int"
    /\ foreign.int > IntHi(target.Int)
    /\ res = OkOption(None)

\* the number a primitive has as an integer: a float is truncated toward zero
Truncated(n) == IF n.kind = "int" THEN n.int ELSE TruncDiv(n.float.n, Unit)
IsFinite(n) == n.kind = "int" \/ n.float.cls = "fin"
ExactFloat(n) == IF n.kind = "int" THEN Fin(n.int * Unit) ELSE n.float
\* C18 as amended: from_cast_int fails with IntCastError exactly when the
\* source, truncated toward zero, is outside the target integer type (NaN and
\* the infinities are), and otherwise holds that number; from_cast_float
\* always succeeds with the nearest float; from_as_int and from_as_float
\* return a Value and never fail: from_as_int keeps the low bits of a source
\* outside the target type, from_as_float gives the nearest float.
C18_CastConstructors ==
    /\ op = "from_cast_int" =>
           IF /\ IsFinite(foreign)
              /\ IntLo(target.Int) <= Truncated(foreign)
              /\ Truncated(foreign) <= IntHi(target.Int)
           THEN res = OkValue(ValueInt(Truncated(foreign)))
           ELSE res = Err([error |-> "IntCastError"])
    /\ op = "from_cast_float" =>
           /\ IsOk(res)
           /\ res.value.tag = "Float"
           /\ FloatCastOf(ExactFloat(foreign), res.value.float, target.Float)
    /\ op = "from_as_int" =>
           /\ res.tag = "Int"
           /\ IntLo(target.Int) <= res.int /\ res.int <= IntHi(target.Int)
           /\ (res.int - foreign.int) % Pow2(target.Int.bits) = 0
    /\ op = "from_as_float" =>
           /\ res.tag = "Float"
           /\ FloatCastOf(foreign.float, res.float, target.Float)

\* from_as_int returned a different number for a source above the target type
C18_Witness ==
    /\ op = "from_as_int"
    /\ foreign.int > IntHi(target.Int)
    /\ res.tag = "Int"
    /\ res.int # foreign.int

\* C18 as stated: each of the four constructors gives the same number when the
\* source is in the range of the target type, and fails when it is not.
C18_AllFallible ==
    /\ op \in {"from_cast_int", "from_as_int"} =>
           IF /\ IsFinite(foreign)
              /\ IntLo(target.Int) <= Truncated(foreign)
              /\ Truncated(foreign) <= IntHi(target.Int)
           THEN \/ op = "from_cast_int" /\ res = OkValue(ValueInt(Truncated(foreign)))
                \/ op = "from_as_int" /\ res = ValueInt(Truncated(foreign))
           ELSE IsErr(res)
    /\ op \in {"from_cast_float", "from_as_float"} =>
           IF ExactFloat(foreign).cls = "fin" /\ Abs(ExactFloat(foreign).n) > MaxIn(target.Float)
           THEN IsErr(res)
           ELSE \/ op = "from_cast_float" /\ IsOk(res)
                \/ op = "from_as_float" /\ res.tag = "Float"

\* C23: into_with of a Value and try_convert agree: into_with gives Some(w)
\* exactly when try_convert gives Ok(w), with the same w, and None exactly when
\* try_convert gives an error; one failing element, at any depth, makes the
\* ingestion of a tuple None.
C23_IntoWithAgreesWithTryConvert ==
    op = "value_into_with" =>
        LET r == try_convert(v, target)
        IN IF r.ok THEN res = OkOption(Some(r.value)) ELSE res = OkOption(None)

\* a tuple whose first element holds an integer the target lacks was ingested
C23_Witness ==
    /\ op = "value_into_with"
    /\ target.Int = I32
    /\ v = from_tuple(<<from_tuple(<<from_int(3), from_int(IntMax)>>),
                        from_float(FloatLit(33, 1)), from_int(3)>>)
    /\ res = OkOption(None)

=============================================================================
